---- MODULE Spec2Model ----
(* gh-mcp: the GitHubClient metadata cache and capability operations,      *)
(* modelled as asynchronous tasks (script calls) interleaving at their     *)
(* await points on one shared client.                                      *)
EXTENDS Integers, Sequences, FiniteSets, TLC

VARIABLES contextCache, config, token, disk, now,
          milestones, issues, nextIssue, board,
          pc, op, loc, calls, io, res, prev, opsLeft,
          script, sp, outcome, result, expired,
          repoUrl, repoInfo, environ, envFile, discovered,
          boards, resolved

vars == <<contextCache, config, token, disk, now,
          milestones, issues, nextIssue, board,
          pc, op, loc, calls, io, res, prev, opsLeft,
          script, sp, outcome, result, expired,
          repoUrl, repoInfo, environ, envFile, discovered,
          boards, resolved>>

clientVars == <<contextCache, config, token, disk>>
scriptVars == <<script, sp, outcome, result, expired>>
repoVars == <<repoUrl, repoInfo>>
tokenVars == <<environ, envFile, discovered>>
projectVars == <<boards, resolved>>
hostVars == <<repoVars, tokenVars, projectVars>>
remoteVars == <<milestones, issues, nextIssue, board>>

(* ---------------------------------------------------------------- bounds *)
MaxOps    == 2
MaxLabels == 2
MaxTime   == 0
MaxIssue  == 4

(* the tasks (script calls in flight) that share the client *)
Tasks == DOMAIN pc

(* ------------------------------------------------------------ option type *)
None == <<>>
Some(x) == <<x>>
IsSome(o) == Len(o) > 0
Get(o) == o[1]

(* a JavaScript undefined / null / absent string *)
Undef == "undefined"
Null == "null"
NoName == ""
Truthy(s) == s # Undef /\ s # Null /\ s # NoName

(* ------------------------------------------------------------ remote data *)
RepoKey == "o/r"
OtherRepoKey == "x/y"
PlaceholderKey == "<OWNER>/<REPO>"
RepoId == "R1"

LabelNames == {"Bug", "Docs", "Nonexistent"}
RemoteLabels == [n \in {"Bug", "Docs"} |-> IF n = "Bug" THEN "L1" ELSE "L2"]
RemoteIssueTypes == [n \in {"Bug"} |-> "T1"]

MilestoneTitles == {"v1.0", "v2.0"}
MilestoneId(title) == IF title = "v1.0" THEN "M1" ELSE "M2"
MilestoneNumber(title) == IF title = "v1.0" THEN 5 ELSE 6
TitleOfNumber(n) == IF n = 5 THEN "v1.0" ELSE IF n = 6 THEN "v2.0" ELSE NoName

IssueNums == 1..MaxIssue
IssueId(n) == n + 100
(* issues 2 and 3 carry the body text "Subtask of #1" *)
SubtaskParent(n) == IF n \in {2, 3} THEN 1 ELSE 0

(* boards visible to the owner: organization scope pages, user scope absent *)
ProjectName == "Roadmap"
OrgPages == << << [id |-> "P1", number |-> 1, title |-> "Backlog"] >>,
               << [id |-> "P2", number |-> 2, title |-> "ROADMAP"] >> >>
ProjectIdOfNumber(n) == IF n = 1 THEN "P1" ELSE IF n = 2 THEN "P2" ELSE Null

ToLower(s) ==
  CASE s = "ROADMAP" -> "roadmap"
    [] s = "Roadmap" -> "roadmap"
    [] s = "Backlog" -> "backlog"
    [] s = "Bug" -> "bug"
    [] OTHER -> s

(* ------------------------------------------------------------ snapshots *)
MsRec(title) == [id |-> MilestoneId(title), title |-> title,
                 number |-> MilestoneNumber(title)]

(* the response of GET_CONTEXT_IDS for the remote state ms (open milestones) *)
ContextResponse(ms, projectNumber) ==
  [id |-> RepoId,
   labels |-> RemoteLabels,
   milestones |-> [m \in {x \in DOMAIN ms : ms[x]} |-> MsRec(m)],
   issueTypes |-> RemoteIssueTypes,
   projectV2 |-> IF projectNumber # 0 THEN ProjectIdOfNumber(projectNumber)
                 ELSE Null]

Snapshot(rid, pid, ls, mss, its) ==
  [repositoryId |-> rid, projectId |-> pid, labels |-> ls,
   milestones |-> mss, issueTypes |-> its]

(* JSON form of a snapshot: Object.fromEntries over each map *)
(* a record written without the board's identifier *)
ToJson_noProject(s) ==
  [repositoryId |-> s.repositoryId, projectId |-> Null,
   labels |-> Some(s.labels), milestones |-> Some(s.milestones),
   issueTypes |-> Some(s.issueTypes)]

ToJson(s) ==
  [repositoryId |-> s.repositoryId, projectId |-> s.projectId,
   labels |-> Some(s.labels), milestones |-> Some(s.milestones),
   issueTypes |-> Some(s.issueTypes)]

NoFile == [kind |-> "missing", repoKey |-> NoName, timestamp |-> 0, data |-> None]
Garbage == [kind |-> "garbage", repoKey |-> NoName, timestamp |-> 0, data |-> None]
CacheFile(key, ts, d) == [kind |-> "json", repoKey |-> key, timestamp |-> ts, data |-> d]

(* ---------------------------------------------------------- configuration *)
Config(pname, cm) ==
  [repoKey |-> RepoKey, project_name |-> pname, project_number |-> 0,
   current_milestone |-> cm]

getRepoKey(cfg) == IF IsSome(cfg) THEN Get(cfg).repoKey ELSE PlaceholderKey

(* -------------------------------------------------------------- errors *)
NoErr == [name |-> "", text |-> "", num |-> 0]
Err(name, text, n) == [name |-> name, text |-> text, num |-> n]
TokenMissing == Err("ConfigError", "GitHub token not found", 0)
ConfigMissing == Err("ConfigError", "Not currently in a repository", 0)
ApiError == Err("Error", "GitHub API error", 0)
IssueNotFound(n) == Err("ConfigError", "Issue # not found", n)

(* ------------------------------------------------------- cache on disk *)
(* an age test on the record: records written before time 0 have expired *)
cacheExpired_ttl(timestamp) == timestamp < 0

(* the validation of the record looks at the repoKey only, never at the age *)
cacheExpired(timestamp) == FALSE

(* loadCacheFromDisk without the isDifferentRepo test *)
loadCacheFromDisk_anyRepo(d, cfg) ==
  IF d.kind # "json" THEN None
  ELSE IF cacheExpired(d.timestamp) THEN None
  ELSE IF ~IsSome(d.data) THEN None
  ELSE LET j == Get(d.data) IN
       IF ~IsSome(j.labels) \/ ~IsSome(j.milestones) \/ ~IsSome(j.issueTypes)
       THEN None
       ELSE Some(Snapshot(j.repositoryId, j.projectId, Get(j.labels),
                          Get(j.milestones), Get(j.issueTypes)))

(* result of loadCacheFromDisk on an unset in-memory snapshot *)
loadCacheFromDisk(d, cfg) ==
  IF d.kind # "json" THEN None
  ELSE IF d.repoKey # getRepoKey(cfg) THEN None
  ELSE IF cacheExpired(d.timestamp) THEN None
  ELSE IF ~IsSome(d.data) THEN None
  ELSE LET j == Get(d.data) IN
       IF ~IsSome(j.labels) \/ ~IsSome(j.milestones) \/ ~IsSome(j.issueTypes)
       THEN None
       ELSE Some(Snapshot(j.repositoryId, j.projectId, Get(j.labels),
                          Get(j.milestones), Get(j.issueTypes)))

(* outcomes of a write attempt: "ok", "denied" (mkdir or open fails),      *)
(* "partial" (the write fails after the file was truncated)               *)
WriteOutcomes == {"ok", "denied", "partial"}

(* a write that leaves a record already in the file alone *)
saveCacheToDisk_keepExisting(cache, cfg, d, ts, w) ==
  IF ~IsSome(cache) \/ d.kind = "json" THEN d
  ELSE IF w = "ok" THEN CacheFile(getRepoKey(cfg), ts, Some(ToJson(Get(cache))))
  ELSE IF w = "partial" THEN Garbage
  ELSE d

saveCacheToDisk(cache, cfg, d, ts, w) ==
  IF ~IsSome(cache) THEN d
  ELSE IF w = "ok" THEN CacheFile(getRepoKey(cfg), ts, Some(ToJson(Get(cache))))
  ELSE IF w = "partial" THEN Garbage
  ELSE d

(* ------------------------------------------------------ resolveProject *)
(* a find that takes the first board of the page whatever its title *)
FindMatch_any(page, name) == IF Len(page) > 0 THEN 1 ELSE 0

(* index of the first board on a page whose title matches, 0 if none *)
FindMatch(page, name) ==
  LET hits == {i \in 1..Len(page) : ToLower(page[i].title) = ToLower(name)}
  IN IF hits = {} THEN 0 ELSE CHOOSE i \in hits : \A j \in hits : i <= j

RECURSIVE ScanPages(_, _, _, _, _)
(* scan pages[i..] of one scope; req requests were issued before; the      *)
(* request number failAt fails                                             *)
ScanPages(pages, i, name, req, failAt) ==
  IF i > Len(pages) \/ req + 1 = failAt
  THEN [found |-> FALSE, number |-> 0, reqs |-> req + 1]
  ELSE LET m == FindMatch(pages[i], name) IN
       IF m # 0
       THEN [found |-> TRUE, number |-> pages[i][m].number, reqs |-> req + 1]
       ELSE IF i = Len(pages)
            THEN [found |-> FALSE, number |-> 0, reqs |-> req + 1]
            ELSE ScanPages(pages, i + 1, name, req + 1, failAt)

UserPages == <<>>

(* for (const query of [LIST_PROJECTS_ORG, LIST_PROJECTS_USER]) ... *)
resolveProjectIn(org, user, name, failAt) ==
  LET o == ScanPages(org, 1, name, 0, failAt) IN
  IF o.found THEN o
  ELSE ScanPages(user, 1, name, o.reqs, failAt)

resolveProject(name, failAt) == resolveProjectIn(OrgPages, UserPages, name, failAt)

ProjectNotFound == Err("ConfigError", "Project with name not found", 0)
ProjectNumberNotFound(n) == Err("ConfigError", "Project # not found", n)

(* ------------------------------------------------------- task state *)
EmptyMap == [n \in {} |-> NoName]

NoOp == [kind |-> "", n |-> 0, names |-> <<>>, milestone |-> NoName,
         issueType |-> NoName, force |-> FALSE, ident |-> NoName,
         state |-> NoName]

InitLoc == [ctx |-> None, data |-> None, projectNumber |-> 0,
            refresh |-> FALSE, found |-> FALSE, issueId |-> 0,
            subtasks |-> <<>>, deleted |-> 0, created |-> 0, msNumber |-> 0,
            solo |-> TRUE, cache0 |-> None, disk0 |-> "", saveFail |-> FALSE,
            remoteFailed |-> FALSE]

ZeroIo == [reads |-> 0, writes |-> 0]

NoCall == [q |-> "", repoId |-> NoName, labelIds |-> None, milestoneId |-> NoName,
           issueTypeId |-> NoName, issueId |-> 0, projectId |-> NoName,
           number |-> 0, title |-> NoName]
Call(q) == [NoCall EXCEPT !.q = q]

Mutations == {"CREATE_ISSUE", "UPDATE_ISSUE", "DELETE_ISSUE", "ADD_TO_PROJECT",
              "ADD_LABELS_TO_ISSUE", "REMOVE_LABELS_FROM_ISSUE",
              "POST_MILESTONE", "PATCH_MILESTONE"}

(* how many of the requests named in the sequence qs are among names *)
Count(qs, names) == Cardinality({i \in 1..Len(qs) : qs[i] \in names})

NoBrief == [kind |-> "", force |-> FALSE, ok |-> FALSE, snap |-> None,
            fetches |-> 0, solo |-> FALSE, saveFail |-> FALSE]

NoOut == [snap |-> None, num |-> 0, isNull |-> FALSE, err |-> NoErr]

NoRes == [kind |-> "", n |-> 0, force |-> FALSE,
          ok |-> FALSE, snap |-> None, num |-> 0, isNull |-> FALSE,
          err |-> NoErr, qs |-> <<>>, reads |-> 0, writes |-> 0,
          solo |-> FALSE, saveFail |-> FALSE, found |-> FALSE, deleted |-> 0,
          cache0 |-> None, disk0 |-> "", cache1 |-> None, before |-> NoBrief,
          remoteFailed |-> FALSE]

(* how loadCacheFromDisk's caller sees the file *)
CompleteJson(j) ==
  /\ j.repositoryId # Undef /\ j.projectId # Undef
  /\ IsSome(j.labels) /\ IsSome(j.milestones) /\ IsSome(j.issueTypes)

DiskClass(d, cfg) ==
  IF d.kind # "json" THEN d.kind
  ELSE IF d.repoKey # getRepoKey(cfg) THEN "mismatch"
  ELSE IF ~IsSome(d.data) THEN "incomplete"
  ELSE IF ~CompleteJson(Get(d.data)) THEN "incomplete"
  ELSE "match"

Upd(f, t, v) == [f EXCEPT ![t] = v]

Frame(t, o) ==
  [o |-> o,
   lc |-> [InitLoc EXCEPT !.solo = \A u \in Tasks \ {t} : pc[u] = "idle",
                          !.cache0 = contextCache,
                          !.disk0 = DiskClass(disk, config)],
   cs |-> <<>>, ios |-> ZeroIo, begin |-> TRUE]

Resume(t) ==
  [o |-> op[t], lc |-> loc[t], cs |-> calls[t], ios |-> io[t], begin |-> FALSE]

NewLoc(t, fr, lc) ==
  IF fr.begin
  THEN [u \in Tasks |-> IF u = t THEN lc
                        ELSE IF pc[u] # "idle" THEN [loc[u] EXCEPT !.solo = FALSE]
                        ELSE loc[u]]
  ELSE Upd(loc, t, lc)

(* the task suspends at await point newpc *)
Pend(t, fr, newpc) ==
  /\ pc' = Upd(pc, t, newpc)
  /\ loc' = NewLoc(t, fr, fr.lc)
  /\ calls' = Upd(calls, t, fr.cs)
  /\ io' = Upd(io, t, fr.ios)
  /\ op' = Upd(op, t, fr.o)
  /\ res' = IF fr.begin THEN [u \in Tasks |-> NoRes] ELSE res
  /\ UNCHANGED <<prev, scriptVars, hostVars>>

Summary(fr, ok, out, cache1) ==
  [kind |-> fr.o.kind, n |-> fr.o.n, force |-> fr.o.force,
   ok |-> ok, snap |-> out.snap, num |-> out.num, isNull |-> out.isNull,
   err |-> out.err, qs |-> [i \in 1..Len(fr.cs) |-> fr.cs[i].q],
   reads |-> fr.ios.reads,
   writes |-> fr.ios.writes, solo |-> fr.lc.solo, saveFail |-> fr.lc.saveFail,
   found |-> fr.lc.found, deleted |-> fr.lc.deleted,
   cache0 |-> fr.lc.cache0, disk0 |-> fr.lc.disk0, cache1 |-> cache1,
   before |-> prev, remoteFailed |-> fr.lc.remoteFailed]

(* what is remembered of the call settled last: its outcome when it was a *)
(* getContextIds call, nothing otherwise                                  *)
Brief(s) ==
  IF s.kind # "getContextIds" THEN NoBrief
  ELSE [kind |-> s.kind, force |-> s.force, ok |-> s.ok, snap |-> s.snap,
        fetches |-> Count(s.qs, {"GET_CONTEXT_IDS"}), solo |-> s.solo,
        saveFail |-> s.saveFail]

(* the operation settles: the promise resolves (ok) or rejects *)
Done(t, fr, ok, out) ==
  /\ pc' = Upd(pc, t, "idle")
  /\ loc' = NewLoc(t, fr, InitLoc)
  /\ calls' = Upd(calls, t, <<>>)
  /\ io' = Upd(io, t, ZeroIo)
  /\ op' = Upd(op, t, NoOp)
  /\ res' = [u \in Tasks |-> IF u = t THEN Summary(fr, ok, out, contextCache')
                             ELSE IF fr.begin THEN NoRes ELSE res[u]]
  /\ prev' = Brief(Summary(fr, ok, out, contextCache'))
  /\ UNCHANGED <<scriptVars, hostVars>>

(* a rejection of the refresh after a milestone request caught, the call  *)
(* returning the milestone                                                *)
Throw_refreshCaught(t, fr, e) ==
  IF fr.lc.refresh
  THEN Done(t, fr, TRUE, [NoOut EXCEPT !.num = fr.lc.msNumber])
  ELSE Done(t, fr, FALSE, [NoOut EXCEPT !.err = e])

(* a throw that no caller catches rejects the operation's promise *)
Throw(t, fr, e) == Done(t, fr, FALSE, [NoOut EXCEPT !.err = e])

(* execute / executeRest after the fetch: a response that is not ok, or    *)
(* one with a non-empty error list, throws an Error with the remote's text *)
RemoteFail(t, fr) == Throw(t, [fr EXCEPT !.lc.remoteFailed = TRUE], ApiError)
Return(t, fr, out) == Done(t, fr, TRUE, out)

(* execute / executeRest up to the fetch: getToken, then the request is sent *)
execute(t, fr, call, newpc) ==
  IF token = NoName THEN Throw(t, fr, TokenMissing)
  ELSE Pend(t, [fr EXCEPT !.cs = Append(@, call)], newpc)

(* --------------------------------------------------- name resolution *)
(* the label loop failing to skip unknown names: they yield an undefined id *)
resolveLabelIds_keepUnknown(labels, names) ==
  [i \in 1..Len(names) |-> IF names[i] \in DOMAIN labels THEN labels[names[i]]
                           ELSE Undef]

(* the loop `const id = context.labels.get(name); if (id) labelIds.push(id)` *)
resolveLabelIds(labels, names) ==
  LET known == SelectSeq(names, LAMBDA n : n \in DOMAIN labels /\ Truthy(labels[n]))
  IN [i \in 1..Len(known) |-> labels[known[i]]]

NumberText(n) == IF n = 5 THEN "5" ELSE IF n = 6 THEN "6" ELSE "0"

(* the milestone's sequence number passed where its identifier belongs *)
resolveMilestoneId_number(ms, name) ==
  IF Truthy(name) /\ name \in DOMAIN ms THEN NumberText(ms[name].number) ELSE Undef

(* context.milestones.get(milestoneName)?.id *)
resolveMilestoneId(ms, name) ==
  IF Truthy(name) /\ name \in DOMAIN ms THEN ms[name].id ELSE Undef

(* exact match, else the first entry equal ignoring case *)
resolveIssueTypeId(its, name) ==
  IF ~Truthy(name) THEN Undef
  ELSE IF name \in DOMAIN its /\ Truthy(its[name]) THEN its[name]
  ELSE LET hits == {k \in DOMAIN its : ToLower(k) = ToLower(name)}
       IN IF hits = {} THEN Undef ELSE its[CHOOSE k \in hits : TRUE]

OrNull(x) == IF Truthy(x) THEN x ELSE Null

createIssueCall(ctx, o, cfg) ==
  LET labelIds == resolveLabelIds(ctx.labels, o.names)
      milestoneName == IF Truthy(o.milestone) THEN o.milestone
                       ELSE cfg.current_milestone
  IN [Call("CREATE_ISSUE") EXCEPT
        !.repoId = ctx.repositoryId,
        !.labelIds = IF Len(labelIds) > 0 THEN Some(labelIds) ELSE None,
        !.milestoneId = OrNull(resolveMilestoneId(ctx.milestones, milestoneName)),
        !.issueTypeId = OrNull(resolveIssueTypeId(ctx.issueTypes, o.issueType))]

(* ------------------------------------------------------- getIssueId *)
(* getIssueId up to its await: getConfig, getRepoInfo, send GET_ISSUE_ID *)
getIssueId(t, fr) ==
  IF ~IsSome(config) THEN Throw(t, fr, ConfigMissing)
  ELSE execute(t, [fr EXCEPT !.lc.found = fr.o.n \in issues],
               [Call("GET_ISSUE_ID") EXCEPT !.number = fr.o.n], "lookup")

(* executeRest for the milestone endpoints *)
restMilestone(t, fr, q, title, number) ==
  execute(t, [fr EXCEPT !.lc.msNumber = number],
          [Call(q) EXCEPT !.title = title, !.number = number], "rest")

MilestoneNotFound == Err("Error", "Milestone not found", 0)

(* what the caller of `await this.getContextIds(...)` does with the result *)
Cont(t, fr, ctx) ==
  CASE fr.o.kind = "getContextIds" ->
         Return(t, fr, [NoOut EXCEPT !.snap = Some(ctx)])
    [] fr.o.kind = "createIssue" ->
         IF ~IsSome(config) THEN Throw(t, fr, ConfigMissing)
         ELSE execute(t, [fr EXCEPT !.lc.ctx = Some(ctx)],
                      createIssueCall(ctx, fr.o, Get(config)), "create")
    [] fr.o.kind \in {"addLabels", "removeLabels"} ->
         getIssueId(t, [fr EXCEPT !.lc.ctx = Some(ctx)])
    [] fr.o.kind = "createMilestone" ->
         Return(t, fr, [NoOut EXCEPT !.num = fr.lc.msNumber])
    [] fr.o.kind = "updateMilestone" ->
         IF fr.lc.refresh
         THEN Return(t, fr, [NoOut EXCEPT !.num = fr.lc.msNumber])
         ELSE IF fr.o.ident \in DOMAIN ctx.milestones
              THEN restMilestone(t, fr, "PATCH_MILESTONE", fr.o.ident,
                                 ctx.milestones[fr.o.ident].number)
              ELSE Throw(t, fr, MilestoneNotFound)

(* ---------------------------------------------------- getContextIds *)
(* the early return left out: every call resolves again *)
cacheHit_never(cache, forceRefresh) == FALSE

(* `if (this.contextCache && !forceRefresh) return this.contextCache` *)
cacheHit(cache, forceRefresh) == IsSome(cache) /\ ~forceRefresh

(* a forced refresh that drops the snapshot before it fetches *)
keptWhileRefreshing_dropped(cache) == None

(* with forceRefresh both early returns are skipped and the snapshot in    *)
(* memory stays assigned until the fetch has succeeded                     *)
keptWhileRefreshing(cache) == cache

(* getContextIds from its entry to its return or first await *)
(* ms: the remote's milestones as a request sent now sees them *)
getContextIdsEntry(t, fr, forceRefresh, ms) ==
  IF cacheHit(contextCache, forceRefresh)
  THEN /\ contextCache' = contextCache
       /\ Cont(t, fr, Get(contextCache))
  ELSE LET loaded == IF forceRefresh THEN keptWhileRefreshing(contextCache)
                     ELSE loadCacheFromDisk(disk, config)
           fr1 == IF forceRefresh THEN fr
                  ELSE [fr EXCEPT !.ios.reads = @ + 1]
       IN /\ contextCache' = loaded
          /\ IF ~forceRefresh /\ IsSome(loaded)
             THEN Cont(t, fr1, Get(loaded))
             ELSE IF ~IsSome(config) THEN Throw(t, fr1, ConfigMissing)
             ELSE LET c == Get(config) IN
                  IF c.project_number = 0 /\ Truthy(c.project_name)
                  THEN Pend(t, fr1, "gci_rp")
                  ELSE execute(t,
                         [fr1 EXCEPT
                            !.lc.projectNumber = c.project_number,
                            !.lc.data = Some(ContextResponse(ms,
                                                             c.project_number))],
                         [Call("GET_CONTEXT_IDS") EXCEPT
                            !.number = c.project_number],
                         "gci_fetch")

(* ------------------------------------------------ operations (entry) *)
LabelLists == UNION {[1..k -> LabelNames] : k \in 0..MaxLabels}
MaxRequests == Len(OrgPages) + 1

Begin(t) ==
  /\ pc[t] = "idle"
  /\ opsLeft[t] > 0
  /\ opsLeft' = Upd(opsLeft, t, opsLeft[t] - 1)

Op(kind) == [NoOp EXCEPT !.kind = kind]

getContextIds(t) ==
  \E forceRefresh \in BOOLEAN :
    /\ Begin(t)
    /\ getContextIdsEntry(t, Frame(t, [Op("getContextIds") EXCEPT
                                         !.force = forceRefresh]), forceRefresh,
                          milestones)
    /\ UNCHANGED <<config, token, disk, now, remoteVars>>

(* opts of createIssue: labels with a milestone, or an issue type alone *)
CreateInputs ==
  {[names |-> ns, milestone |-> m, issueType |-> NoName] :
     ns \in LabelLists, m \in {NoName} \cup MilestoneTitles}
  \cup {[names |-> <<>>, milestone |-> NoName, issueType |-> it] :
          it \in {"Bug", "bug", "Task"}}

createIssue(t) ==
  \E opts \in CreateInputs :
    /\ Begin(t)
    /\ getContextIdsEntry(t, Frame(t, [Op("createIssue") EXCEPT
                                         !.names = opts.names,
                                         !.milestone = opts.milestone,
                                         !.issueType = opts.issueType]), FALSE,
                          milestones)
    /\ UNCHANGED <<config, token, disk, now, remoteVars>>

(* updateIssue and deleteIssue: getConfig, then getIssueId *)
NumberOp(t, kind) ==
  \E n \in IssueNums :
    LET fr == Frame(t, [Op(kind) EXCEPT !.n = n]) IN
    /\ Begin(t)
    /\ UNCHANGED <<clientVars, now, remoteVars>>
    /\ IF ~IsSome(config) THEN Throw(t, fr, ConfigMissing)
       ELSE getIssueId(t, fr)

updateIssue(t) == NumberOp(t, "updateIssue")

deleteIssue(t) == NumberOp(t, "deleteIssue")

(* the issues label operations are tried on: the first and the last number *)
LabelTargets == {1, MaxIssue}

(* addLabels and removeLabels: getConfig, then getContextIds() *)
LabelOp(t, kind) ==
  \E n \in LabelTargets, names \in LabelLists :
    LET fr == Frame(t, [Op(kind) EXCEPT !.n = n, !.names = names]) IN
    /\ Begin(t)
    /\ UNCHANGED <<config, token, disk, now, remoteVars>>
    /\ IF ~IsSome(config)
       THEN contextCache' = contextCache /\ Throw(t, fr, ConfigMissing)
       ELSE getContextIdsEntry(t, fr, FALSE, milestones)

addLabels(t) == LabelOp(t, "addLabels")

removeLabels(t) == LabelOp(t, "removeLabels")

createMilestone(t) ==
  \E title \in MilestoneTitles :
    /\ Begin(t)
    /\ UNCHANGED <<clientVars, now, remoteVars>>
    /\ restMilestone(t, Frame(t, [Op("createMilestone") EXCEPT !.ident = title]),
                     "POST_MILESTONE", title, MilestoneNumber(title))

(* milestoneIdentifier is a number (byNumber) or a title *)
updateMilestone(t) ==
  \E byNumber \in BOOLEAN, title \in MilestoneTitles, st \in {NoName, "closed"} :
    /\ Begin(t)
    /\ UNCHANGED <<config, token, disk, now, remoteVars>>
    /\ IF byNumber
       THEN /\ contextCache' = contextCache
            /\ restMilestone(t, Frame(t, [Op("updateMilestone") EXCEPT
                                            !.n = MilestoneNumber(title),
                                            !.state = st]),
                             "PATCH_MILESTONE", title, MilestoneNumber(title))
       ELSE getContextIdsEntry(t, Frame(t, [Op("updateMilestone") EXCEPT
                                              !.ident = title, !.state = st]),
                               FALSE, milestones)

getIssue(t) ==
  \E n \in IssueNums :
    LET fr == Frame(t, [Op("getIssue") EXCEPT !.n = n]) IN
    /\ Begin(t)
    /\ UNCHANGED <<clientVars, now, remoteVars>>
    /\ IF ~IsSome(config) THEN Throw(t, fr, ConfigMissing)
       ELSE execute(t, [fr EXCEPT !.lc.found = n \in issues],
                    [Call("GET_ISSUE") EXCEPT !.number = n], "get")

(* the issues whose body matches "Subtask of #n", in search order *)
RECURSIVE Ascending(_)
Ascending(S) ==
  IF S = {} THEN <<>>
  ELSE LET m == CHOOSE x \in S : \A y \in S : x <= y
       IN <<m>> \o Ascending(S \ {m})

searchSubtasks(n) == Ascending({i \in issues : SubtaskParent(i) = n})

(* deleteIssue of the variant that also deletes subtasks: getRepoInfo      *)
(* (which needs the configuration), then the subtask search                *)
deleteIssueWithSubtasks(t) ==
  \E n \in IssueNums :
    LET fr == Frame(t, [Op("deleteIssueWithSubtasks") EXCEPT !.n = n]) IN
    /\ Begin(t)
    /\ UNCHANGED <<clientVars, now, remoteVars>>
    /\ IF ~IsSome(config) THEN Throw(t, fr, ConfigMissing)
       ELSE execute(t, [fr EXCEPT !.lc.subtasks = searchSubtasks(n)],
                    [Call("SEARCH_ISSUES") EXCEPT !.number = n], "search")

(* --------------------------------------------- resumptions after await *)
(* getContextIds after `await this.resolveProject(...)` *)
ProjectResolved(t) ==
  /\ pc[t] = "gci_rp"
  /\ \E failAt \in 0..MaxRequests :
       LET c == Get(config)
           r == IF token = NoName
                THEN [found |-> FALSE, number |-> 0, reqs |-> 0]
                ELSE resolveProject(c.project_name, failAt)
           fr == [Resume(t) EXCEPT
                    !.cs = @ \o [i \in 1..r.reqs |->
                                   [Call("LIST_PROJECTS") EXCEPT !.number = i]],
                    !.lc.remoteFailed = failAt \in 1..r.reqs]
       IN /\ UNCHANGED <<contextCache, token, disk, now, remoteVars, opsLeft>>
          /\ IF r.found
             THEN /\ config' = Some([c EXCEPT !.project_number = r.number])
                  /\ execute(t,
                       [fr EXCEPT
                          !.lc.projectNumber = r.number,
                          !.lc.data = Some(ContextResponse(milestones, r.number))],
                       [Call("GET_CONTEXT_IDS") EXCEPT !.number = r.number],
                       "gci_fetch")
             ELSE /\ config' = config
                  /\ Throw(t, fr, ProjectNotFound)

(* a snapshot built without the label map of the response *)
buildContext_partial(data, projectNumber) ==
  Snapshot(data.id, IF projectNumber # 0 THEN data.projectV2 ELSE Null,
           EmptyMap, data.milestones, data.issueTypes)

(* the snapshot getContextIds builds from the response *)
buildContext(data, projectNumber) ==
  Snapshot(data.id, IF projectNumber # 0 THEN data.projectV2 ELSE Null,
           data.labels, data.milestones, data.issueTypes)

(* saveCacheToDisk without its try/catch *)
saveFailurePropagates_uncaught(w) == w # "ok"

(* the catch of saveCacheToDisk: does a failed write reach the caller? *)
saveFailurePropagates(w) == FALSE

(* getContextIds after `await this.execute(GET_CONTEXT_IDS)`; ts is the    *)
(* value Date.now() has when the record is written (the clock never runs  *)
(* backwards)                                                             *)
ContextFetched(t) ==
  /\ pc[t] = "gci_fetch"
  /\ \E ok \in BOOLEAN, w \in WriteOutcomes, ts \in now..MaxTime :
       LET fr == Resume(t)
           data == Get(fr.lc.data)
           pn == fr.lc.projectNumber
           snap == buildContext(data, pn)
       IN /\ UNCHANGED <<config, token, remoteVars, opsLeft>>
          /\ IF ~ok
             THEN UNCHANGED <<contextCache, disk, now>> /\ RemoteFail(t, fr)
             ELSE IF pn # 0 /\ data.projectV2 = Null
             THEN /\ UNCHANGED <<contextCache, disk, now>>
                  /\ Throw(t, fr, ProjectNumberNotFound(pn))
             ELSE /\ contextCache' = Some(snap)
                  /\ now' = ts
                  /\ disk' = saveCacheToDisk(Some(snap), config, disk, ts, w)
                  /\ LET fr1 == [fr EXCEPT !.ios.writes = @ + 1,
                                           !.lc.saveFail = @ \/ w # "ok"]
                     IN IF w # "ok" /\ saveFailurePropagates(w)
                        THEN Throw(t, fr1, Err("Error", "EACCES", 0))
                        ELSE Cont(t, fr1, snap)

(* after `await this.getIssueId(number)` *)
IssueIdResolved(t) ==
  /\ pc[t] = "lookup"
  /\ \E ok \in BOOLEAN :
       LET fr0 == Resume(t)
           fr == [fr0 EXCEPT !.lc.issueId = IssueId(fr0.o.n)]
           k == fr.o.kind
       IN /\ UNCHANGED <<clientVars, now, remoteVars, opsLeft>>
          /\ IF ~ok THEN RemoteFail(t, fr0)
             ELSE IF ~fr.lc.found THEN Throw(t, fr0, IssueNotFound(fr.o.n))
             ELSE IF k = "updateIssue"
             THEN execute(t, fr, [Call("UPDATE_ISSUE") EXCEPT
                                    !.issueId = IssueId(fr.o.n)], "mutate")
             ELSE IF k \in {"deleteIssue", "deleteIssueWithSubtasks"}
             THEN execute(t, fr, [Call("DELETE_ISSUE") EXCEPT
                                    !.issueId = IssueId(fr.o.n)], "mutate")
             ELSE LET labelIds == resolveLabelIds(Get(fr.lc.ctx).labels, fr.o.names)
                      q == IF k = "addLabels" THEN "ADD_LABELS_TO_ISSUE"
                           ELSE "REMOVE_LABELS_FROM_ISSUE"
                  IN IF Len(labelIds) > 0
                     THEN execute(t, fr, [Call(q) EXCEPT
                                            !.issueId = IssueId(fr.o.n),
                                            !.labelIds = Some(labelIds)], "mutate")
                     ELSE Return(t, fr, NoOut)

(* after the awaited UPDATE_ISSUE, DELETE_ISSUE or label mutation *)
MutationDone(t) ==
  /\ pc[t] = "mutate"
  /\ \E ok \in BOOLEAN :
       LET fr == Resume(t)
           k == fr.o.kind
           isDelete == k \in {"deleteIssue", "deleteIssueWithSubtasks"}
       IN /\ UNCHANGED <<clientVars, now, milestones, nextIssue, opsLeft>>
          /\ IF ~ok \/ fr.o.n \notin issues
             THEN UNCHANGED <<issues, board>> /\ RemoteFail(t, fr)
             ELSE /\ issues' = IF isDelete THEN issues \ {fr.o.n} ELSE issues
                  /\ board' = IF isDelete THEN board \ {fr.o.n} ELSE board
                  /\ Return(t, fr, [NoOut EXCEPT
                                      !.num = IF k = "deleteIssue" THEN 1
                                              ELSE IF isDelete
                                              THEN fr.lc.deleted + 1
                                              ELSE fr.o.n])

(* the refresh of a milestone operation asked for without `true` *)
milestoneRefreshForced_omitted == FALSE

(* the argument of `await this.getContextIds(true)` after a milestone call *)
milestoneRefreshForced == TRUE

(* createMilestone / updateMilestone after `await this.executeRest(...)`:   *)
(* the result is kept and getContextIds(true) is awaited                   *)
RestDone(t) ==
  /\ pc[t] = "rest"
  /\ \E ok \in BOOLEAN :
       LET fr == Resume(t)
           k == fr.o.kind
           title == TitleOfNumber(fr.lc.msNumber)
           accepted == IF k = "createMilestone" THEN title \notin DOMAIN milestones
                       ELSE title \in DOMAIN milestones
       IN /\ UNCHANGED <<token, disk, now, issues, nextIssue, board, opsLeft>>
          /\ IF ~ok \/ ~accepted
             THEN /\ UNCHANGED <<contextCache, config, milestones>>
                  /\ RemoteFail(t, fr)
             ELSE /\ milestones' =
                       [m \in DOMAIN milestones \cup {title} |->
                          IF m # title THEN milestones[m]
                          ELSE IF k = "createMilestone" THEN TRUE
                          ELSE IF fr.o.state = "closed" THEN FALSE
                          ELSE milestones[m]]
                  /\ config' = config
                  /\ getContextIdsEntry(t, [fr EXCEPT !.lc.refresh = TRUE],
                                        milestoneRefreshForced, milestones')

(* createIssue after the awaited CREATE_ISSUE *)
IssueCreated(t) ==
  /\ pc[t] = "create"
  /\ \E ok \in BOOLEAN :
       LET fr0 == Resume(t)
           fr == [fr0 EXCEPT !.lc.created = nextIssue]
           ctx == Get(fr.lc.ctx)
       IN /\ UNCHANGED <<clientVars, now, milestones, board, opsLeft>>
          /\ IF ~ok \/ nextIssue > MaxIssue
             THEN UNCHANGED <<issues, nextIssue>> /\ RemoteFail(t, fr0)
             ELSE /\ issues' = issues \cup {nextIssue}
                  /\ nextIssue' = nextIssue + 1
                  /\ IF Truthy(ctx.projectId)
                     THEN execute(t, fr, [Call("ADD_TO_PROJECT") EXCEPT
                                            !.projectId = ctx.projectId,
                                            !.issueId = IssueId(nextIssue)], "add")
                     ELSE Return(t, fr, [NoOut EXCEPT !.num = nextIssue])

(* createIssue after the awaited ADD_TO_PROJECT *)
AddedToProject(t) ==
  /\ pc[t] = "add"
  /\ \E ok \in BOOLEAN :
       LET fr == Resume(t) IN
       /\ UNCHANGED <<clientVars, now, milestones, issues, nextIssue, opsLeft>>
       /\ IF ~ok \/ fr.lc.created \notin issues
          THEN UNCHANGED board /\ RemoteFail(t, fr)
          ELSE /\ board' = board \cup {fr.lc.created}
               /\ Return(t, fr, [NoOut EXCEPT !.num = fr.lc.created])

(* getIssue after the awaited GET_ISSUE: `return result.repository.issue` *)
(* getIssue never answering null *)
getIssueResult_neverNull(found, n) == [NoOut EXCEPT !.num = n]

getIssueResult(found, n) ==
  IF found THEN [NoOut EXCEPT !.num = n] ELSE [NoOut EXCEPT !.isNull = TRUE]

IssueFetched(t) ==
  /\ pc[t] = "get"
  /\ \E ok \in BOOLEAN :
       LET fr == Resume(t) IN
       /\ UNCHANGED <<clientVars, now, remoteVars, opsLeft>>
       /\ IF ~ok THEN RemoteFail(t, fr)
          ELSE Return(t, fr, getIssueResult(fr.lc.found, fr.o.n))

(* the subtask loop of deleteIssue: delete the next subtask, or go on to   *)
(* the parent's getIssueId                                                *)
(* the loop over the subtasks left out: straight to the parent *)
nextSubtaskStep_parentOnly(t, fr) == getIssueId(t, fr)

nextSubtaskStep(t, fr) ==
  IF fr.lc.subtasks # <<>>
  THEN execute(t, fr, [Call("DELETE_ISSUE") EXCEPT
                         !.issueId = IssueId(Head(fr.lc.subtasks))], "subdel")
  ELSE getIssueId(t, fr)

SubtasksFound(t) ==
  /\ pc[t] = "search"
  /\ \E ok \in BOOLEAN :
       LET fr == Resume(t) IN
       /\ UNCHANGED <<clientVars, now, remoteVars, opsLeft>>
       /\ IF ~ok THEN RemoteFail(t, fr)
          ELSE nextSubtaskStep(t, fr)

SubtaskDeleted(t) ==
  /\ pc[t] = "subdel"
  /\ \E ok \in BOOLEAN :
       LET fr == Resume(t)
           s == Head(fr.lc.subtasks)
       IN /\ UNCHANGED <<clientVars, now, milestones, nextIssue, opsLeft>>
          /\ IF ~ok \/ s \notin issues
             THEN UNCHANGED <<issues, board>> /\ RemoteFail(t, fr)
             ELSE /\ issues' = issues \ {s}
                  /\ board' = board \ {s}
                  /\ nextSubtaskStep(t, [fr EXCEPT !.lc.subtasks = Tail(@),
                                                   !.lc.deleted = @ + 1])

(* ------------------------------------------------- script execution *)
(* JavaScript values a script can return: t is the type, s the text the   *)
(* value prints as, d the value under `data` of a display wrapper         *)
JsValue(t, s) == [t |-> t, s |-> s, d |-> <<>>]
VUndefined == JsValue("undefined", "")
VNull == JsValue("null", "null")
VString(s) == JsValue("string", s)
VNumber == JsValue("number", "2")
VEmptyArray == JsValue("array", "[]")
VIssue == JsValue("issue", "#1: Fix crash")
VObject == JsValue("object", "{ foo: bar }")
VWrapper(v) == [t |-> "wrapper", s |-> "{ data }", d |-> <<v>>]

NoReturnText == "Script executed successfully (no return value)."

(* formatResult treating every falsy value as no value: `if (!data)` *)
formatResult_falsy(r) ==
  LET data == IF r.t = "wrapper" THEN r.d[1] ELSE r IN
  IF data.t \in {"undefined", "null"} \/ data = VString("") THEN NoReturnText
  ELSE IF data.t = "string" THEN data.s
  ELSE IF data.t = "array" THEN "No items found."
  ELSE data.s

(* formatResult: unwrap {data, showBody}, then undefined, strings, arrays, *)
(* issues, and JSON.stringify for the rest                                 *)
formatResult(r) ==
  LET data == IF r.t = "wrapper" THEN r.d[1] ELSE r IN
  IF data.t = "undefined" THEN NoReturnText
  ELSE IF data.t = "string" THEN data.s
  ELSE IF data.t = "array" THEN "No items found."
  ELSE data.s

(* thrown values: an Error (or subclass) carries name and message; str is  *)
(* what String(value) gives; messages are sequences of text fragments      *)
Thrown(isError, name, message, str) ==
  [isError |-> isError, name |-> name, message |-> message, str |-> str]
NoThrown == Thrown(FALSE, "", <<>>, <<>>)
ErrorValue(name, text) == Thrown(TRUE, name, <<text>>, <<name, ": ", text>>)
ThrownOf(err) == ErrorValue(err.name, err.text)
TimeoutError == ErrorValue("Error", "execution exceeded time budget")

ThrownValues ==
  {ErrorValue("Error", "Boom"),
   Thrown(TRUE, "Error", <<"ConfigError", ": ", "Boom">>,
          <<"Error", ": ", "ConfigError", ": ", "Boom">>),
   Thrown(FALSE, "", <<>>, <<"oops">>),
   Thrown(FALSE, "", <<"m">>, <<"[object Object]">>)}

ReturnValues ==
  {VUndefined, VNull, VString(""), VString("ok"), VNumber, VEmptyArray, VIssue,
   VObject, VWrapper(VUndefined), VWrapper(VString(""))}

(* the names a script may refer to *)
CapabilityContext == {"github", "console", "setTimeout"}
AmbientNames == {"fetch", "process"}

(* a scope that lets a lookup fall through to the host's globals *)
ScopeLookup_enclosing(name) ==
  IF name \in CapabilityContext THEN JsValue("injected", name)
  ELSE JsValue("host", name)

(* what a free name evaluates to inside the script's scope *)
ScopeLookup(name) ==
  IF name \in CapabilityContext THEN JsValue("injected", name) ELSE VUndefined

(* a script: an optional awaited call into the github facade, then a       *)
(* return of a value or of a name's value, or a throw                      *)
NoScript == [call |-> "", end |-> "", v |-> VUndefined, thrown |-> NoThrown,
             name |-> ""]
Scripts ==
  {[NoScript EXCEPT !.call = c, !.end = "return", !.v = v] :
     c \in {"", "getContextIds"}, v \in ReturnValues}
  \cup {[NoScript EXCEPT !.call = c, !.end = "throw", !.thrown = x] :
          c \in {"", "getContextIds"}, x \in ThrownValues}
  \cup {[NoScript EXCEPT !.end = "ref", !.name = n] :
          n \in CapabilityContext \cup AmbientNames}

NoOutcome == [kind |-> "", v |-> VUndefined, thrown |-> NoThrown]
Value(v) == [NoOutcome EXCEPT !.kind = "Value", !.v = v]
Failure(kind, x) == [NoOutcome EXCEPT !.kind = kind, !.thrown = x]

NoExecution ==
  /\ script = NoScript /\ sp = "idle" /\ outcome = None /\ result = None
  /\ expired = FALSE

(* a late settlement replacing the outcome already produced *)
settle_last(current, new) == Some(new)

(* the promise of execute settles once: the first outcome stands *)
settle(current, new) == IF IsSome(current) THEN current ELSE Some(new)

(* the script body runs from its start or from its resumption to its end *)
runToEnd ==
  /\ sp' = "finished"
  /\ outcome' = settle(outcome,
       CASE script.end = "return" -> Value(script.v)
         [] script.end = "ref" -> Value(ScopeLookup(script.name))
         [] script.end = "throw" -> Failure("ScriptError", script.thrown))

(* execute(script): the body starts; it runs to its end or suspends at the *)
(* awaited facade call, which is then started on the client                *)
ScriptStart ==
  /\ sp = "ready"
  /\ UNCHANGED <<script, result, expired, hostVars>>
  /\ IF script.call = ""
     THEN runToEnd /\ UNCHANGED <<clientVars, now, remoteVars, pc, op, loc,
                                  calls, io, res, prev, opsLeft>>
     ELSE /\ sp' = "awaiting"
          /\ outcome' = outcome
          /\ opsLeft' = [t \in Tasks |-> 1]
          /\ UNCHANGED <<clientVars, now, remoteVars, pc, op, loc, calls, io,
                         res, prev>>

(* the awaited call has settled: its rejection is thrown in the script and *)
(* not caught, its result lets the body go on to its end                   *)
ScriptResume ==
  /\ sp = "awaiting"
  /\ \E t \in Tasks : pc[t] = "idle" /\ opsLeft[t] = 0 /\ res[t].kind # ""
       /\ IF res[t].ok THEN runToEnd
          ELSE /\ sp' = "finished"
               /\ outcome' = settle(outcome,
                                    Failure("ScriptError", ThrownOf(res[t].err)))
  /\ UNCHANGED <<hostVars, script, result, expired, clientVars, now, remoteVars, pc, op,
                 loc, calls, io, res, prev, opsLeft>>

(* the wall-clock budget expires while the script is suspended *)
Expire ==
  /\ sp = "awaiting" /\ ~expired
  /\ expired' = TRUE
  /\ outcome' = settle(outcome, Failure("Timeout", TimeoutError))
  /\ UNCHANGED <<hostVars, script, sp, result, clientVars, now, remoteVars, pc, op, loc,
                 calls, io, res, prev, opsLeft>>

(* the tool-call handler of execute_github_script *)
Includes(message, word) == \E i \in 1..Len(message) : message[i] = word

(* the message read off the caught value whatever it is *)
errorMessage_property(error) == error.message

(* error instanceof Error ? error.message : String(error) *)
errorMessage(error) == IF error.isError THEN error.message ELSE error.str

ToolResult(isError, text) == [isError |-> isError, text |-> text]

(* a handler whose catch block reports the failure as an ordinary result *)
CallTool_swallow(o) == ToolResult(FALSE, <<formatResult(o.v)>>)

(* try { result = await execute(script); text: formatResult(result) }      *)
(* catch: the message alone if it mentions ConfigError, else prefixed      *)
CallTool(o) ==
  IF o.kind = "Value" THEN ToolResult(FALSE, <<formatResult(o.v)>>)
  ELSE LET message == errorMessage(o.thrown) IN
       IF Includes(message, "ConfigError") THEN ToolResult(TRUE, message)
       ELSE ToolResult(TRUE, <<"Script Execution Error: ">> \o message)

(* the promise of execute has settled: the handler returns its result *)
Deliver ==
  /\ IsSome(outcome) /\ result = None
  /\ result' = Some(CallTool(Get(outcome)))
  /\ UNCHANGED <<hostVars, script, sp, outcome, expired, clientVars, now, remoteVars, pc,
                 op, loc, calls, io, res, prev, opsLeft>>

(* ------------------------------------------------ repository address *)
(* text is a sequence of fragments; a repo_url is a scheme and host       *)
(* followed by path fragments: "/", name fragments, ".git", " "           *)
MaxPath == 6
Hosts == {"github.com", "www.github.com", "gitlab.com"}
PathFragments == {"/", "o", ".git", " "}
Paths == UNION {[1..k -> PathFragments] : k \in 0..MaxPath}
RepoUrls ==
  {<<"https://", h>> \o p : h \in Hosts, p \in Paths}
  \cup {<<>>, <<"o">>, <<"o", "/", "o">>}

(* new URL(repoUrl): fails unless the text starts with scheme and host;   *)
(* the path is percent-encoded and "/" when empty                         *)
Encode(f) == IF f = " " THEN "%20" ELSE f
UrlParses(u) == Len(u) >= 2 /\ u[1] = "https://" /\ u[2] \in Hosts
UrlHostname(u) == u[2]
UrlPathname(u) ==
  LET rest == [i \in 1..(Len(u) - 2) |-> Encode(u[i + 2])] IN
  IF rest = <<>> \/ rest[1] # "/" THEN <<"/">> \o rest ELSE rest

(* pathname.split('/').filter(Boolean) *)
RECURSIVE SplitPath(_, _, _)
SplitPath(text, i, current) ==
  IF i > Len(text)
  THEN IF current = <<>> THEN <<>> ELSE <<current>>
  ELSE IF text[i] = "/"
       THEN (IF current = <<>> THEN <<>> ELSE <<current>>)
            \o SplitPath(text, i + 1, <<>>)
       ELSE SplitPath(text, i + 1, Append(current, text[i]))

(* /^[a-z0-9_.-]+$/i *)
ValidFragments == {"o", ".git"}
validName(name) ==
  name # <<>> /\ \A i \in 1..Len(name) : name[i] \in ValidFragments

(* every trailing .git removed: a loop where the code has an if *)
RECURSIVE stripGit_all(_)
stripGit_all(repo) ==
  IF repo # <<>> /\ repo[Len(repo)] = ".git"
  THEN stripGit_all(SubSeq(repo, 1, Len(repo) - 1)) ELSE repo

(* if (repo.endsWith('.git')) repo = repo.slice(0, -4) *)
stripGit(repo) ==
  IF repo # <<>> /\ repo[Len(repo)] = ".git"
  THEN SubSeq(repo, 1, Len(repo) - 1) ELSE repo

RepoInfo(owner, repo) == [ok |-> TRUE, owner |-> owner, repo |-> repo, why |-> ""]
InvalidRepoUrl(why) == [ok |-> FALSE, owner |-> <<>>, repo |-> <<>>, why |-> why]

(* getRepoInfo for a configured repo_url; an empty repo_url gives the     *)
(* placeholder                                                            *)
getRepoInfo(u) ==
  IF u = <<>> THEN RepoInfo(<<"<OWNER>">>, <<"<REPO>">>)
  ELSE IF ~UrlParses(u) THEN InvalidRepoUrl("Invalid URL")
  ELSE IF UrlHostname(u) \notin {"github.com", "www.github.com"}
  THEN InvalidRepoUrl("Only github.com URLs")
  ELSE LET parts == SplitPath(UrlPathname(u), 1, <<>>) IN
       IF Len(parts) < 2 THEN InvalidRepoUrl("at least an owner and a repository")
       ELSE LET owner == parts[1]
                repo == stripGit(parts[2])
            IN IF ~validName(owner) \/ ~validName(repo)
               THEN InvalidRepoUrl("invalid characters")
               ELSE RepoInfo(owner, repo)

NoRepoUrl == repoUrl = <<>> /\ repoInfo = None
NoEnviron == environ = None /\ envFile = None /\ discovered = None
NoBoards == boards = [org |-> <<>>, user |-> <<>>, failAt |-> 0] /\ resolved = None
NoHost == NoRepoUrl /\ NoEnviron /\ NoBoards

(* a client reads its repository address *)
ReadRepoInfo ==
  /\ repoInfo = None
  /\ repoInfo' = Some(getRepoInfo(repoUrl))
  /\ UNCHANGED <<clientVars, now, remoteVars, pc, op, loc, calls, io, res, prev,
                 opsLeft, scriptVars, repoUrl, tokenVars, projectVars>>

(* ---------------------------------------------------- token discovery *)
(* process.env.GITHUB_MCP_PAT is None when unset; ~/.gemini/.env is None  *)
(* when missing, else its content and whether reading it succeeds         *)
MaxValue == 3
TokenKey == "GITHUB_MCP_PAT"
Quotes == {"\"", "'"}
ValueFragments == {"t", "=", " "} \cup Quotes
Values == UNION {[1..k -> ValueFragments] : k \in 0..MaxValue}
KeyLine(v) == <<TokenKey, "=">> \o v
EnvContents ==
  {<<>>, <<"OTHER", "=", "t">>}
  \cup {KeyLine(v) : v \in Values}
  \cup {<<"OTHER", "=", "t", "\n">> \o KeyLine(v) : v \in Values}
  \cup {<<" ">> \o KeyLine(v) \o <<"\n">> \o KeyLine(<<"u">>) : v \in Values}
EnvFiles ==
  {None} \cup {Some([content |-> c, readable |-> r]) :
                 c \in EnvContents, r \in BOOLEAN}
Environs == {None, Some(<<>>), Some(<<"e">>)}

(* text.split(sep) *)
RECURSIVE SplitOn(_, _, _, _)
SplitOn(text, sep, i, current) ==
  IF i > Len(text) THEN <<current>>
  ELSE IF text[i] = sep
       THEN <<current>> \o SplitOn(text, sep, i + 1, <<>>)
       ELSE SplitOn(text, sep, i + 1, Append(current, text[i]))

(* text.trim() *)
RECURSIVE Trim(_)
Trim(text) ==
  IF text = <<>> THEN text
  ELSE IF text[1] = " " THEN Trim(Tail(text))
  ELSE IF text[Len(text)] = " " THEN Trim(SubSeq(text, 1, Len(text) - 1))
  ELSE text

StartsWithKey(line) == Len(line) >= 2 /\ line[1] = TokenKey /\ line[2] = "="

(* token.replace(/^['"]|['"]$/g, '') *)
StripQuotes(text) ==
  LET a == IF text # <<>> /\ text[1] \in Quotes THEN Tail(text) ELSE text IN
  IF a # <<>> /\ a[Len(a)] \in Quotes THEN SubSeq(a, 1, Len(a) - 1) ELSE a

(* trimmed.split('=')[1].trim(), quotes stripped *)
LineToken(trimmed) == StripQuotes(Trim(SplitOn(trimmed, "=", 1, <<>>)[2]))

RECURSIVE FirstKeyLine(_, _)
FirstKeyLine(lines, i) ==
  IF i > Len(lines) THEN None
  ELSE IF StartsWithKey(Trim(lines[i])) THEN Some(Trim(lines[i]))
  ELSE FirstKeyLine(lines, i + 1)

Discovery(tok, consulted) == [token |-> tok, consulted |-> consulted]

discoverGitHubToken(env, file) ==
  IF IsSome(env) /\ Get(env) # <<>> THEN Discovery(env, FALSE)
  ELSE IF file = None THEN Discovery(None, TRUE)
  ELSE IF ~Get(file).readable THEN Discovery(None, TRUE)
  ELSE LET line == FirstKeyLine(SplitOn(Get(file).content, "\n", 1, <<>>), 1) IN
       IF line = None THEN Discovery(None, TRUE)
       ELSE Discovery(Some(LineToken(Get(line))), TRUE)

(* getToken finds no token yet and discovers one *)
DiscoverToken ==
  /\ discovered = None
  /\ discovered' = Some(discoverGitHubToken(environ, envFile))
  /\ UNCHANGED <<clientVars, now, remoteVars, pc, op, loc, calls, io, res, prev,
                 opsLeft, scriptVars, repoVars, environ, envFile, projectVars>>

(* ------------------------------------------------- boards of an owner *)
(* the boards an owner's scopes list, page by page; a board's number      *)
(* tells its scope, page and place on the page                            *)
MaxPages == 2
TitlesOnBoards == {"Backlog", "ROADMAP"}
Board(scope, page, i, title) ==
  [id |-> "P", number |-> 100 * scope + 10 * page + i, title |-> title]
PageTitles == {<<>>} \cup {<<a>> : a \in TitlesOnBoards}
              \cup {<<a, "ROADMAP">> : a \in TitlesOnBoards}
ScopeTitles == UNION {[1..k -> PageTitles] : k \in 0..MaxPages}
ScopePages(scope, titles) ==
  [p \in 1..Len(titles) |->
     [i \in 1..Len(titles[p]) |-> Board(scope, p, i, titles[p][i])]]
Owners ==
  {[org |-> ScopePages(1, o), user |-> ScopePages(2, u), failAt |-> f] :
     o \in ScopeTitles, u \in ScopeTitles, f \in 0..(2 * MaxPages)}

(* getContextIds awaits resolveProject for the configured project_name *)
ResolveBoard ==
  /\ resolved = None
  /\ resolved' = Some(resolveProjectIn(boards.org, boards.user, ProjectName,
                                       boards.failAt))
  /\ UNCHANGED <<clientVars, now, remoteVars, pc, op, loc, calls, io, res, prev,
                 opsLeft, scriptVars, repoVars, tokenVars, boards>>

(* ------------------------------------------------------------- Init *)
(* the snapshot of the concrete scenario, as an earlier run persisted it *)
SavedSnapshot ==
  Snapshot(RepoId, Null, [n \in {"Bug"} |-> "L1"],
           [m \in {"v1.0"} |-> MsRec(m)], EmptyMap)
OtherSnapshot ==
  Snapshot("R9", Null, [n \in {"Bug"} |-> "L9"], EmptyMap, EmptyMap)

InitTimestamps == {-1, 0}
InitTasks == {1}

InitDisks ==
  {NoFile, Garbage}
  \cup {CacheFile(RepoKey, ts, Some(ToJson(SavedSnapshot))) : ts \in InitTimestamps}
  \cup {CacheFile(OtherRepoKey, ts, Some(ToJson(OtherSnapshot))) : ts \in InitTimestamps}
  \cup {CacheFile(RepoKey, 0, None),
        CacheFile(RepoKey, 0, Some([ToJson(SavedSnapshot) EXCEPT !.labels = None])),
        CacheFile(RepoKey, 0, Some([ToJson(SavedSnapshot) EXCEPT !.repositoryId = Undef]))}

InitConfigs ==
  {Some(Config(NoName, NoName)), Some(Config(NoName, "v1.0")),
   Some(Config(ProjectName, NoName)), Some(Config("Nope", NoName))}

(* the environments a process can start in: configured with a token and   *)
(* any cache file; with a project or a default milestone; without a       *)
(* token; without a configuration file                                    *)
InitEnvs ==
  {[config |-> Some(Config(NoName, NoName)), token |-> "tok", disk |-> d] :
     d \in InitDisks}
  \cup {[config |-> c, token |-> "tok", disk |-> d] :
          c \in InitConfigs,
          d \in {NoFile, CacheFile(RepoKey, 0, Some(ToJson(SavedSnapshot)))}}
  \cup {[config |-> Some(Config(NoName, NoName)), token |-> NoName, disk |-> d] :
          d \in {NoFile, CacheFile(RepoKey, 0, Some(ToJson(SavedSnapshot)))}}
  \cup {[config |-> None, token |-> "tok", disk |-> d] :
          d \in {NoFile, CacheFile(PlaceholderKey, 0, Some(ToJson(SavedSnapshot)))}}

Init ==
  /\ contextCache = None
  /\ \E e \in InitEnvs : config = e.config /\ token = e.token /\ disk = e.disk
  /\ now = 0
  /\ milestones = [m \in {"v1.0"} |-> TRUE]
  /\ issues = {1, 2, 3}
  /\ nextIssue = 4
  /\ board = {}
  /\ pc = [t \in InitTasks |-> "idle"]
  /\ op = [t \in InitTasks |-> NoOp]
  /\ loc = [t \in InitTasks |-> InitLoc]
  /\ calls = [t \in InitTasks |-> <<>>]
  /\ io = [t \in InitTasks |-> ZeroIo]
  /\ res = [t \in InitTasks |-> NoRes]
  /\ prev = NoBrief
  /\ opsLeft = [t \in InitTasks |-> MaxOps]
  /\ NoExecution
  /\ NoHost

Next ==
  \/ \E t \in Tasks : getContextIds(t)
  \/ \E t \in Tasks : createIssue(t)
  \/ \E t \in Tasks : updateIssue(t)
  \/ \E t \in Tasks : deleteIssue(t)
  \/ \E t \in Tasks : addLabels(t)
  \/ \E t \in Tasks : removeLabels(t)
  \/ \E t \in Tasks : createMilestone(t)
  \/ \E t \in Tasks : updateMilestone(t)
  \/ \E t \in Tasks : getIssue(t)
  \/ \E t \in Tasks : deleteIssueWithSubtasks(t)
  \/ \E t \in Tasks : ProjectResolved(t)
  \/ \E t \in Tasks : ContextFetched(t)
  \/ \E t \in Tasks : IssueIdResolved(t)
  \/ \E t \in Tasks : MutationDone(t)
  \/ \E t \in Tasks : RestDone(t)
  \/ \E t \in Tasks : IssueCreated(t)
  \/ \E t \in Tasks : AddedToProject(t)
  \/ \E t \in Tasks : IssueFetched(t)
  \/ \E t \in Tasks : SubtasksFound(t)
  \/ \E t \in Tasks : SubtaskDeleted(t)

Spec == Init /\ [][Next]_vars

(* ------------------------------------------- two callers on one client *)
(* two scripts run against the one client: their getContextIds and        *)
(* createMilestone calls interleave at every await                        *)
ConcurrentTasks == {1, 2}

ConcurrentEnvs ==
  {[config |-> c, token |-> "tok", disk |-> d] :
     c \in {Some(Config(NoName, NoName)), Some(Config(ProjectName, NoName))},
     d \in {NoFile, CacheFile(RepoKey, 0, Some(ToJson(SavedSnapshot))),
            CacheFile(OtherRepoKey, 0, Some(ToJson(OtherSnapshot)))}}

InitConcurrent ==
  /\ contextCache = None
  /\ \E e \in ConcurrentEnvs :
       config = e.config /\ token = e.token /\ disk = e.disk
  /\ now = 0
  /\ milestones = [m \in {"v1.0"} |-> TRUE]
  /\ issues = {1, 2, 3}
  /\ nextIssue = 4
  /\ board = {}
  /\ pc = [t \in ConcurrentTasks |-> "idle"]
  /\ op = [t \in ConcurrentTasks |-> NoOp]
  /\ loc = [t \in ConcurrentTasks |-> InitLoc]
  /\ calls = [t \in ConcurrentTasks |-> <<>>]
  /\ io = [t \in ConcurrentTasks |-> ZeroIo]
  /\ res = [t \in ConcurrentTasks |-> NoRes]
  /\ prev = NoBrief
  /\ opsLeft = [t \in ConcurrentTasks |-> MaxOps]
  /\ NoExecution
  /\ NoHost

NextConcurrent ==
  \/ \E t \in Tasks : getContextIds(t)
  \/ \E t \in Tasks : createMilestone(t)
  \/ \E t \in Tasks : ProjectResolved(t)
  \/ \E t \in Tasks : ContextFetched(t)
  \/ \E t \in Tasks : RestDone(t)

SpecConcurrent == InitConcurrent /\ [][NextConcurrent]_vars

(* ------------------------------------------- one script, one tool call *)
(* the server handles one execute_github_script call: the script may      *)
(* await github.getContextIds() against a client that is configured,      *)
(* lacks its token, lacks its configuration or names an unknown project   *)
ScriptEnvs ==
  {[config |-> c, token |-> "tok", disk |-> d] :
     c \in {Some(Config(NoName, NoName)), Some(Config(ProjectName, NoName)),
            Some(Config("Nope", NoName)), None},
     d \in {NoFile, CacheFile(RepoKey, 0, Some(ToJson(SavedSnapshot)))}}
  \cup {[config |-> Some(Config(NoName, NoName)), token |-> NoName,
         disk |-> NoFile]}

InitScript ==
  /\ contextCache = None
  /\ \E e \in ScriptEnvs :
       config = e.config /\ token = e.token /\ disk = e.disk
  /\ now = 0
  /\ milestones = [m \in {"v1.0"} |-> TRUE]
  /\ issues = {1, 2, 3}
  /\ nextIssue = 4
  /\ board = {}
  /\ pc = [t \in InitTasks |-> "idle"]
  /\ op = [t \in InitTasks |-> NoOp]
  /\ loc = [t \in InitTasks |-> InitLoc]
  /\ calls = [t \in InitTasks |-> <<>>]
  /\ io = [t \in InitTasks |-> ZeroIo]
  /\ res = [t \in InitTasks |-> NoRes]
  /\ prev = NoBrief
  /\ opsLeft = [t \in InitTasks |-> 0]
  /\ script \in Scripts
  /\ sp = "ready" /\ outcome = None /\ result = None /\ expired = FALSE
  /\ NoHost

NextScript ==
  \/ ScriptStart
  \/ \E t \in Tasks : getContextIds(t)
  \/ \E t \in Tasks : ProjectResolved(t)
  \/ \E t \in Tasks : ContextFetched(t)
  \/ ScriptResume
  \/ Expire
  \/ Deliver

SpecScript == InitScript /\ [][NextScript]_vars

(* the event loop runs every continuation that is ready, and the remote   *)
(* answers every request                                                  *)
SpecScriptFair == SpecScript /\ WF_vars(NextScript)

(* --------------------------------------------- reading the environment *)
(* a client that has issued no call: configured, with a token, no cache   *)
Quiescent ==
  /\ contextCache = None
  /\ config = Some(Config(NoName, NoName)) /\ token = "tok" /\ disk = NoFile
  /\ now = 0
  /\ milestones = [m \in {"v1.0"} |-> TRUE]
  /\ issues = {1, 2, 3}
  /\ nextIssue = 4
  /\ board = {}
  /\ pc = [t \in InitTasks |-> "idle"]
  /\ op = [t \in InitTasks |-> NoOp]
  /\ loc = [t \in InitTasks |-> InitLoc]
  /\ calls = [t \in InitTasks |-> <<>>]
  /\ io = [t \in InitTasks |-> ZeroIo]
  /\ res = [t \in InitTasks |-> NoRes]
  /\ prev = NoBrief
  /\ opsLeft = [t \in InitTasks |-> 0]
  /\ NoExecution

(* getRepoInfo applied to every repo_url of the bounded set *)
InitRepoInfo ==
  /\ Quiescent
  /\ repoUrl \in RepoUrls /\ repoInfo = None
  /\ NoEnviron /\ NoBoards

NextRepoInfo == ReadRepoInfo

SpecRepoInfo == InitRepoInfo /\ [][NextRepoInfo]_vars

(* discoverGitHubToken applied to every environment of the bounded set *)
InitDiscovery ==
  /\ Quiescent
  /\ NoRepoUrl /\ NoBoards
  /\ environ \in Environs /\ envFile \in EnvFiles /\ discovered = None

NextDiscovery == DiscoverToken

SpecDiscovery == InitDiscovery /\ [][NextDiscovery]_vars

(* resolveProject applied to every owner of the bounded set *)
InitResolve ==
  /\ Quiescent
  /\ NoRepoUrl /\ NoEnviron
  /\ boards \in Owners /\ resolved = None

NextResolve == ResolveBoard

SpecResolve == InitResolve /\ [][NextResolve]_vars

(* ================================================================ claims *)
Fetches(r) == Count(r.qs, {"GET_CONTEXT_IDS"})
IsResolve(r) == r.kind = "getContextIds" /\ ~r.force

(* C1: idempotent resolution. Of two consecutive getContextIds(false) calls *)
(* that return, the second returns the snapshot the first returned and     *)
(* both together issue at most one GET_CONTEXT_IDS; a getContextIds(false) *)
(* call that finds an in-memory snapshot returns it with no disk read, no  *)
(* disk write and no remote call.                                          *)
C1_IdempotentResolution ==
  \A t \in Tasks :
    LET r == res[t] IN
    (IsResolve(r) /\ r.ok) =>
      /\ IsSome(r.cache0) =>
           r.snap = r.cache0 /\ r.reads = 0 /\ r.writes = 0 /\ r.qs = <<>>
      /\ (IsResolve(r.before) /\ r.before.ok /\ r.solo /\ r.before.solo) =>
           r.snap = r.before.snap /\ r.before.fetches + Fetches(r) <= 1

(* a second getContextIds(false) has returned right after a first one that *)
(* fetched                                                                 *)
C1_Witness ==
  \E t \in Tasks :
    /\ IsResolve(res[t]) /\ res[t].ok /\ IsSome(res[t].cache0)
    /\ IsResolve(res[t].before) /\ res[t].before.ok
    /\ res[t].before.fetches = 1

(* C2: repo-key isolation. When the cache file holds a record of another   *)
(* repoKey, getContextIds(false) reads it but never adopts it: a call that *)
(* returns has issued one GET_CONTEXT_IDS and returns the fetched snapshot *)
(* of the configured repository, whatever the record's timestamp; a call   *)
(* that fails leaves the snapshot unset and fails with an error that a     *)
(* missing cache file allows as well.                                      *)
ResolutionErrors ==
  {TokenMissing, ConfigMissing, ApiError, ProjectNotFound}
  \cup {ProjectNumberNotFound(n) : n \in 1..Len(OrgPages)}

C2_RepoKeyIsolation ==
  \A t \in Tasks :
    LET r == res[t] IN
    (IsResolve(r) /\ ~IsSome(r.cache0) /\ r.disk0 = "mismatch") =>
      /\ r.reads = 1
      /\ r.ok => /\ Fetches(r) = 1
                 /\ r.snap = r.cache1
                 /\ Get(r.snap).repositoryId = RepoId
                 /\ Get(r.snap).labels = RemoteLabels
      /\ ~r.ok => ~IsSome(r.cache1) /\ r.err \in ResolutionErrors

(* a resolution has returned although the file held another repository's   *)
(* record                                                                  *)
C2_Witness ==
  \E t \in Tasks :
    /\ IsResolve(res[t]) /\ res[t].ok /\ res[t].disk0 = "mismatch"
    /\ Fetches(res[t]) = 1

(* the identifiers of the requested names the label map knows, in order *)
RECURSIVE KnownIds(_, _)
KnownIds(labels, names) ==
  IF names = <<>> THEN <<>>
  ELSE (IF Head(names) \in DOMAIN labels THEN <<labels[Head(names)]>> ELSE <<>>)
       \o KnownIds(labels, Tail(names))

(* the identifiers a labelIds argument carries (null carries none) *)
IdsCarried(arg) == IF IsSome(arg) THEN Get(arg) ELSE <<>>
LastCall(t) == calls[t][Len(calls[t])]
IsLabelOp(k) == k \in {"addLabels", "removeLabels"}

(* C3: best-effort label resolution. The label identifiers that createIssue, *)
(* addLabels and removeLabels pass to their remote call are exactly the     *)
(* identifiers of the requested names the snapshot's label map knows, in    *)
(* the order requested; unknown names are dropped and the operation fails   *)
(* only with a configuration, lookup or remote error.                       *)
C3_BestEffortLabels ==
  \A t \in Tasks :
    /\ pc[t] = "create" =>
         /\ LastCall(t).q = "CREATE_ISSUE"
         /\ IdsCarried(LastCall(t).labelIds) =
              KnownIds(Get(loc[t].ctx).labels, op[t].names)
    /\ (pc[t] = "mutate" /\ IsLabelOp(op[t].kind)) =>
         /\ LastCall(t).q \in {"ADD_LABELS_TO_ISSUE", "REMOVE_LABELS_FROM_ISSUE"}
         /\ LastCall(t).labelIds =
              Some(KnownIds(Get(loc[t].ctx).labels, op[t].names))
    /\ ((IsLabelOp(res[t].kind) \/ res[t].kind = "createIssue") /\ ~res[t].ok) =>
         res[t].err \in ResolutionErrors \cup {IssueNotFound(res[t].n)}

(* createIssue has sent its request for labels of which one is unknown and *)
(* one is known                                                            *)
C3_Witness ==
  \E t \in Tasks :
    /\ pc[t] = "create"
    /\ \E i \in 1..Len(op[t].names) : op[t].names[i] = "Nonexistent"
    /\ Len(IdsCarried(LastCall(t).labelIds)) = 1

(* C4: createIssue delegates with identifiers of the snapshot: the request *)
(* carries the snapshot's repositoryId, the identifiers of the known       *)
(* labels and the id (never the number) of the milestone record stored     *)
(* under the requested name; for the snapshot {labels {Bug: L1},           *)
(* milestones {v1.0: {M1, 5}}, repositoryId R1} and the input              *)
(* {labels [Bug], milestone v1.0} it carries R1, [L1] and M1.               *)
C4_CreateIssueDelegation ==
  \A t \in Tasks :
    pc[t] = "create" =>
      LET c == LastCall(t)
          ctx == Get(loc[t].ctx)
          o == op[t]
      IN /\ c.q = "CREATE_ISSUE"
         /\ c.repoId = ctx.repositoryId
         /\ IdsCarried(c.labelIds) = KnownIds(ctx.labels, o.names)
         /\ (Truthy(o.milestone) /\ o.milestone \in DOMAIN ctx.milestones) =>
              /\ c.milestoneId = ctx.milestones[o.milestone].id
              /\ c.milestoneId # NumberText(ctx.milestones[o.milestone].number)
         /\ (ctx = SavedSnapshot /\ o.names = <<"Bug">> /\ o.milestone = "v1.0") =>
              /\ c.repoId = "R1"
              /\ c.labelIds = Some(<<"L1">>)
              /\ c.milestoneId = "M1"

(* createIssue has sent its request in the concrete scenario *)
C4_Witness ==
  \E t \in Tasks :
    /\ pc[t] = "create"
    /\ Get(loc[t].ctx) = SavedSnapshot
    /\ op[t].names = <<"Bug">> /\ op[t].milestone = "v1.0"

(* some request of set a is followed, later in qs, by a request of set b *)
After(qs, a, b) ==
  \E i \in 1..Len(qs) : \E j \in 1..Len(qs) : i < j /\ qs[i] \in a /\ qs[j] \in b

IsMilestoneOp(k) == k \in {"createMilestone", "updateMilestone"}
MilestoneRequests == {"POST_MILESTONE", "PATCH_MILESTONE"}
OpenMilestones == {m \in DOMAIN milestones : milestones[m]}

NumberAddressed ==
  {"updateIssue", "deleteIssue", "deleteIssueWithSubtasks", "addLabels",
   "removeLabels"}
IssueMutations ==
  {"UPDATE_ISSUE", "DELETE_ISSUE", "ADD_LABELS_TO_ISSUE", "REMOVE_LABELS_FROM_ISSUE"}

(* C6: a number-addressed mutating operation (updateIssue, deleteIssue in   *)
(* both of its variants, addLabels, removeLabels) issues GET_ISSUE_ID       *)
(* before any mutation, and when the lookup finds no issue of that number  *)
(* it fails with the not-found error naming the number, having issued no   *)
(* mutation.                                                               *)
C6_LookupBeforeMutation ==
  \A t \in Tasks :
    LET r == res[t] IN
    r.kind \in NumberAddressed =>
      /\ \A i \in 1..Len(r.qs) :
           r.qs[i] \in IssueMutations =>
             \E j \in 1..(i - 1) : r.qs[j] = "GET_ISSUE_ID"
      /\ (Count(r.qs, {"GET_ISSUE_ID"}) > 0 /\ ~r.found /\ r.err # ApiError) =>
           /\ ~r.ok
           /\ r.err = IssueNotFound(r.n)
           /\ Count(r.qs, IssueMutations) = 0

C8_PartialFailureCarriesCount ==
  \A t \in Tasks :
    LET r == res[t] IN
    (r.kind = "deleteIssueWithSubtasks" /\ ~r.ok /\ r.deleted >= 1) =>
      r.num = r.deleted

(* C9: a failed write of the cache file never fails the resolution: the    *)
(* getContextIds call that met it returns the snapshot it fetched, which   *)
(* is the in-memory snapshot, no operation fails with the write's error,   *)
(* and the next getContextIds(false) returns the same snapshot with no     *)
(* remote request.                                                         *)
C9_PersistFailureTolerated ==
  \A t \in Tasks :
    LET r == res[t] IN
    /\ r.saveFail => IsSome(r.cache1) /\ r.err.text # "EACCES"
    /\ (r.kind = "getContextIds" /\ r.saveFail) =>
         /\ r.ok
         /\ Fetches(r) = 1
         /\ r.snap = r.cache1
    /\ (IsResolve(r) /\ r.solo /\ r.before.kind = "getContextIds"
          /\ r.before.saveFail /\ r.before.solo) =>
         /\ r.ok
         /\ r.snap = r.before.snap
         /\ r.qs = <<>>

(* a getContextIds(false) has returned right after a resolution whose      *)
(* write of the cache file failed                                          *)
C9_Witness ==
  \E t \in Tasks :
    /\ IsResolve(res[t]) /\ res[t].ok
    /\ res[t].before.kind = "getContextIds" /\ res[t].before.saveFail
    /\ res[t].before.ok

(* is every field of the snapshot filled? *)
Filled(s) == Truthy(s.repositoryId) /\ s.projectId # Undef

(* C10: a missing, truncated or unparsable cache file, or one whose record *)
(* lacks part of the snapshot, is treated as no cache: getContextIds(false) *)
(* on an unset snapshot reads it, adopts nothing from it and goes on to    *)
(* the remote fetch, so that a call that returns has fetched once and      *)
(* returns a completely filled snapshot, and a call that fails leaves the  *)
(* snapshot unset.                                                         *)
C10_UnusableCacheFileIgnored ==
  \A t \in Tasks :
    LET r == res[t] IN
    (IsResolve(r) /\ ~IsSome(r.cache0)
       /\ r.disk0 \in {"missing", "garbage", "incomplete"}) =>
      /\ r.reads = 1
      /\ r.ok => /\ Fetches(r) = 1
                 /\ r.snap = r.cache1
                 /\ Filled(Get(r.snap))
      /\ ~r.ok => ~IsSome(r.cache1) /\ r.err \in ResolutionErrors

ProjectByName == IsSome(config) /\ Truthy(Get(config).project_name)

(* C11: with a project board configured by name, every createIssue call    *)
(* that returns has issued ADD_TO_PROJECT after CREATE_ISSUE and the       *)
(* created issue is on the board, whether the snapshot was fetched, was in *)
(* memory or was loaded from the persisted record of the repository.       *)
C11_CreatedIssueAddedToBoard ==
  \A t \in Tasks :
    LET r == res[t] IN
    (r.kind = "createIssue" /\ r.ok /\ ProjectByName) =>
      /\ After(r.qs, {"CREATE_ISSUE"}, {"ADD_TO_PROJECT"})
      /\ r.num \in board

(* the titles of all boards of both scopes, in lower case *)
BoardTitles ==
  {ToLower(OrgPages[i][j].title) : i \in 1..Len(OrgPages), j \in {1}}
  \cup {ToLower(UserPages[i][j].title) : i \in 1..Len(UserPages), j \in {1}}
NoBoardMatches == ProjectByName /\ ToLower(Get(config).project_name) \notin BoardTitles

(* C13: when the configured board name equals no board title of either    *)
(* scope ignoring case, resolution fails explicitly: an operation that has *)
(* listed boards fails with the configuration error "project not found",   *)
(* stores no snapshot (the in-memory snapshot stays as it was, or as the   *)
(* operation had loaded it from the cache file) and writes no cache file,  *)
(* and no operation ever reaches the snapshot fetch.                       *)
C13_UnmatchedBoardFails ==
  \A t \in Tasks :
    LET r == res[t] IN
    NoBoardMatches =>
      /\ pc[t] # "gci_fetch"
      /\ Fetches(r) = 0 /\ r.writes = 0
      /\ Count(r.qs, {"LIST_PROJECTS"}) > 0 =>
           /\ ~r.ok
           /\ r.err = ProjectNotFound
           /\ r.err.name = "ConfigError"
           /\ \/ r.cache1 = r.cache0
              \/ r.reads = 1 /\ r.cache1 = loadCacheFromDisk(disk, config)

(* a resolution has failed after visiting every page of both scopes *)
C13_Witness ==
  \E t \in Tasks :
    /\ NoBoardMatches
    /\ res[t].err = ProjectNotFound
    /\ ~res[t].remoteFailed
    /\ Count(res[t].qs, {"LIST_PROJECTS"}) = MaxRequests

(* C14: an operation one of whose remote calls failed - the board-listing  *)
(* calls of the metadata resolution included - fails with the error made   *)
(* from the remote's status or messages, never with another error and      *)
(* never not at all.                                                       *)
C14_RemoteFailurePropagates ==
  \A t \in Tasks :
    res[t].remoteFailed => ~res[t].ok /\ res[t].err = ApiError

(* C15: the persisted record never expires: getContextIds(false) on an     *)
(* unset snapshot adopts the record of the configured repository whatever *)
(* its timestamp, with no remote request and no write, and while such a    *)
(* record exists only a forced refresh writes the cache file.              *)
C15_NoExpiry ==
  \A t \in Tasks :
    LET r == res[t] IN
    /\ (IsResolve(r) /\ ~IsSome(r.cache0) /\ r.disk0 = "match") =>
         /\ r.ok
         /\ r.qs = <<>> /\ r.writes = 0
         /\ r.snap = r.cache1
         /\ r.solo => Some(ToJson(Get(r.snap))) = disk.data
    /\ (r.disk0 = "match" /\ r.writes > 0) =>
         r.force \/ IsMilestoneOp(r.kind)

(* a record written before the present has been adopted *)
C15_Witness ==
  \E t \in Tasks :
    /\ IsResolve(res[t]) /\ res[t].ok /\ ~IsSome(res[t].cache0)
    /\ res[t].disk0 = "match"
    /\ disk.kind = "json" /\ disk.timestamp < 0
    /\ Some(ToJson(Get(res[t].snap))) = disk.data

(* the snapshots one GET_CONTEXT_IDS response can yield: every field from  *)
(* the one response, for some set of open milestones; and the snapshot an  *)
(* earlier process fetched and persisted                                   *)
CompleteFetches ==
  {Snapshot(RepoId, pid, RemoteLabels, [m \in ms |-> MsRec(m)], RemoteIssueTypes) :
     ms \in SUBSET MilestoneTitles, pid \in {Null} \cup {"P1", "P2"}}
  \cup {SavedSnapshot}

WholeSnapshot(c) == IsSome(c) => Get(c) \in CompleteFetches

WholeRecord(d) ==
  d.kind = "json" =>
    \/ d.repoKey = OtherRepoKey /\ d.data = Some(ToJson(OtherSnapshot))
    \/ /\ d.repoKey = RepoKey
       /\ IsSome(d.data)
       /\ \E s \in CompleteFetches : Get(d.data) = ToJson(s)

FetchSettles(t) ==
  /\ pc[t] = "gci_fetch" /\ pc'[t] = "idle" /\ res'[t].ok

(* C12: concurrent resolutions are last-writer-wins without corruption.    *)
(* Under every interleaving of two callers' getContextIds and              *)
(* createMilestone calls, the in-memory snapshot is at every moment unset  *)
(* or the complete result of one fetch, the persisted record is the one    *)
(* found at start (of this or another repository) or the complete result   *)
(* of one fetch under the client's own repoKey, and each resolution that   *)
(* completes a fetch leaves its own snapshot in memory and, when its write *)
(* succeeds, in the cache file.                                            *)
C12_LastWriterWins ==
  /\ [](WholeSnapshot(contextCache) /\ WholeRecord(disk))
  /\ [][\A t \in Tasks :
          FetchSettles(t) =>
            /\ contextCache' = Some(buildContext(Get(loc[t].data),
                                                 loc[t].projectNumber))
            /\ res'[t].cache1 = contextCache'
            /\ ~res'[t].saveFail =>
                 /\ disk'.repoKey = RepoKey
                 /\ disk'.data = Some(ToJson(Get(contextCache')))]_vars

(* a resolution that overlapped another call has returned its fetch, and   *)
(* the snapshot now in memory is that of a later fetch                     *)
C12_Witness ==
  \E t \in Tasks :
    /\ res[t].kind = "getContextIds" /\ res[t].ok /\ Fetches(res[t]) = 1
    /\ ~res[t].solo
    /\ IsSome(contextCache) /\ contextCache # res[t].snap

(* C16: timeout enforcement. An execution produces exactly one outcome:   *)
(* one is produced, and once produced neither it nor the result returned  *)
(* to the caller changes. If the budget expired while the script was      *)
(* suspended the outcome is Failure(Timeout) and the caller gets an error *)
(* result carrying the timeout message, also after the suspended          *)
(* operation has completed.                                               *)
Contains(text, part) ==
  \E i \in 0..(Len(text) - Len(part)) : SubSeq(text, i + 1, i + Len(part)) = part

TimedOut ==
  expired =>
    /\ outcome = Some(Failure("Timeout", TimeoutError))
    /\ IsSome(result) =>
         Get(result).isError /\ Contains(Get(result).text, TimeoutError.message)

OutcomeOnce ==
  /\ IsSome(outcome) => outcome' = outcome
  /\ IsSome(result) => result' = result

C16_TimeoutEnforced ==
  /\ []TimedOut
  /\ [][OutcomeOnce]_vars
  /\ <>IsSome(outcome)

C16_Witness ==
  /\ expired /\ IsSome(result) /\ sp = "finished"
  /\ script.end = "return" /\ script.v = VString("ok")
  /\ \E t \in Tasks : res[t].kind = "getContextIds" /\ res[t].ok

(* C17: sandboxing. A script that evaluates a free name gets the injected *)
(* binding if the name is the github facade, the logging shim or a timer, *)
(* and undefined if it names an ambient capability of the host (network   *)
(* fetch, process access); it never gets the host's own binding.          *)
C17_OnlyInjectedBindings ==
  (script.end = "ref" /\ IsSome(outcome)) =>
    LET o == Get(outcome) IN
    /\ o.kind = "Value"
    /\ o.v.t # "host"
    /\ script.name \in AmbientNames =>
         /\ o.v = VUndefined
         /\ IsSome(result) => Get(result) = ToolResult(FALSE, <<NoReturnText>>)
    /\ script.name \in CapabilityContext => o.v = JsValue("injected", script.name)

C17_Witness ==
  /\ script.end = "ref" /\ script.name = "fetch"
  /\ outcome = Some(Value(VUndefined)) /\ IsSome(result)

(* C18: a script that ends without returning a value yields undefined,    *)
(* and the caller is told so with the fixed no-return-value text; a       *)
(* script that returns an empty string or null gets a different text      *)
(* (the empty text, "null"), so the three outcomes are distinguishable.   *)
Returned(v) ==
  /\ script.end = "return" /\ script.v = v
  /\ outcome = Some(Value(v)) /\ IsSome(result)

C18_NoReturnDistinguished ==
  /\ Returned(VUndefined) => Get(result) = ToolResult(FALSE, <<NoReturnText>>)
  /\ Returned(VString("")) => Get(result) = ToolResult(FALSE, <<"">>)
  /\ Returned(VNull) => Get(result) = ToolResult(FALSE, <<"null">>)
  /\ \A v \in {VString(""), VNull} :
       Returned(v) => Get(result).text # <<NoReturnText>>

C18_Witness == Returned(VUndefined) /\ script.call = "getContextIds"

(* C19: a value a script throws and does not catch, or the rejection of   *)
(* a call it awaits, never yields a Value: execute rejects, and the tool  *)
(* call returns a result flagged isError whose text contains the thrown   *)
(* value's message if it is an Error and its string form otherwise.       *)
Description(x) == IF x.isError THEN x.message ELSE x.str

C19_UncaughtThrowIsErrorResult ==
  /\ (script.end = "throw" /\ IsSome(outcome)) => Get(outcome).kind # "Value"
  /\ \A x \in ThrownValues \cup {ThrownOf(res[t].err) : t \in Tasks} :
       (outcome = Some(Failure("ScriptError", x)) /\ IsSome(result)) =>
         /\ Get(result).isError
         /\ Contains(Get(result).text, Description(x))

C19_Witness ==
  /\ script.end = "throw" /\ ~script.thrown.isError
  /\ script.thrown.message # <<>>
  /\ outcome = Some(Failure("ScriptError", script.thrown))
  /\ IsSome(result)

(* C20: a ConfigError raised while a script runs (no token, no repository *)
(* configuration, a project name no board carries) reaches the caller as  *)
(* an error result whose text is exactly the error's message, and the     *)
(* operation that failed is not started again.                            *)
ConfigFailure(t) ==
  /\ res[t].kind = "getContextIds" /\ ~res[t].ok
  /\ res[t].err.name = "ConfigError"
  /\ outcome = Some(Failure("ScriptError", ThrownOf(res[t].err)))
  /\ IsSome(result)

C20_ConfigErrorVerbatim ==
  \A t \in Tasks :
    ConfigFailure(t) =>
      /\ Get(result) = ToolResult(TRUE, <<res[t].err.text>>)
      /\ pc[t] = "idle" /\ opsLeft[t] = 0

(* C21: with no repository configuration, or with no token, every         *)
(* operation that addresses the repository fails with a ConfigError       *)
(* before any remote request is issued.                                   *)
Unconfigured == config = None \/ token = NoName

C21_UnconfiguredFailsBeforeRequest ==
  \A t \in Tasks :
    (res[t].kind # "" /\ Unconfigured) =>
      /\ ~res[t].ok /\ res[t].err.name = "ConfigError"
      /\ res[t].qs = <<>>

(* C22: getRepoInfo on repo_url. For a github.com URL whose path has at   *)
(* least two segments of valid name characters it returns the first       *)
(* segment as owner and the second, one trailing ".git" removed, as repo; *)
(* for another host, fewer than two segments or a segment with invalid    *)
(* characters it throws a configuration error.                            *)
Segments(u) == SplitPath(UrlPathname(u), 1, <<>>)
NameCharsOnly(seg) == \A i \in 1..Len(seg) : seg[i] \in {"o", ".git"}
WithoutGitSuffix(seg) ==
  IF seg[Len(seg)] = ".git" THEN SubSeq(seg, 1, Len(seg) - 1) ELSE seg
GitHubUrl(u) == UrlParses(u) /\ u[2] \in {"github.com", "www.github.com"}
TwoNames(u) ==
  /\ Len(Segments(u)) >= 2
  /\ NameCharsOnly(Segments(u)[1]) /\ NameCharsOnly(Segments(u)[2])

C22_RepoInfoFromUrl ==
  (IsSome(repoInfo) /\ repoUrl # <<>>) =>
    IF GitHubUrl(repoUrl) /\ TwoNames(repoUrl)
    THEN Get(repoInfo) = RepoInfo(Segments(repoUrl)[1],
                                  WithoutGitSuffix(Segments(repoUrl)[2]))
    ELSE ~Get(repoInfo).ok

(* C22 as amended: as above, and a second segment that is ".git" alone    *)
(* (nothing is left of it once the suffix is removed) is rejected with a  *)
(* configuration error as well; github.com and www.github.com are the     *)
(* accepted hosts.                                                        *)
C22_RepoInfoFromUrlNonEmpty ==
  (IsSome(repoInfo) /\ repoUrl # <<>>) =>
    IF /\ GitHubUrl(repoUrl) /\ TwoNames(repoUrl)
       /\ WithoutGitSuffix(Segments(repoUrl)[2]) # <<>>
    THEN Get(repoInfo) = RepoInfo(Segments(repoUrl)[1],
                                  WithoutGitSuffix(Segments(repoUrl)[2]))
    ELSE ~Get(repoInfo).ok

C22_Witness ==
  /\ repoUrl = <<"https://", "github.com", "/", "o", "/", ".git">>
  /\ repoInfo = Some(InvalidRepoUrl("invalid characters"))

(* C23: discoverGitHubToken precedence. With GITHUB_MCP_PAT set in the    *)
(* environment its value is returned and ~/.gemini/.env is not consulted; *)
(* otherwise the value of the first GITHUB_MCP_PAT= line of the file is   *)
(* returned with one surrounding quote pair stripped; with neither, null. *)
WrittenValue(line) == Trim(SubSeq(line, 3, Len(line)))
Unquoted(v) ==
  IF Len(v) >= 2 /\ v[1] \in Quotes /\ v[Len(v)] = v[1]
  THEN SubSeq(v, 2, Len(v) - 1) ELSE v
FileLine ==
  IF envFile = None \/ ~Get(envFile).readable THEN None
  ELSE FirstKeyLine(SplitOn(Get(envFile).content, "\n", 1, <<>>), 1)

C23_TokenPrecedence ==
  IsSome(discovered) =>
    LET d == Get(discovered) IN
    /\ (IsSome(environ) /\ Get(environ) # <<>>) =>
         d = Discovery(environ, FALSE)
    /\ (environ = None /\ IsSome(FileLine)) =>
         d.token = Some(Unquoted(WrittenValue(Get(FileLine))))
    /\ (environ = None /\ FileLine = None) => d.token = None

(* C24: once createMilestone has completed, its forced refresh included,  *)
(* the snapshot that later getContextIds(false) calls return is one       *)
(* fetched no earlier than that refresh: it holds every milestone the     *)
(* refresh saw, the created one among them, also when a resolution begun  *)
(* earlier by another caller completes after the refresh.                 *)
MilestonesOf(cache) == DOMAIN Get(cache).milestones

C24_RefreshNotOverwritten ==
  \A t \in Tasks :
    (res[t].kind = "createMilestone" /\ res[t].ok) =>
      /\ IsSome(contextCache)
      /\ MilestonesOf(res[t].cache1) \subseteq MilestonesOf(contextCache)

(* C25: getContextIds(true) never returns in-memory or persisted data: it *)
(* does not read the cache file, a call that returns has issued a         *)
(* GET_CONTEXT_IDS request, and then the in-memory snapshot and the       *)
(* persisted record both equal the fetched result.                        *)
IsRefresh(r) == r.kind = "getContextIds" /\ r.force
FetchedNow(r) ==
  /\ Fetches(r) = 1
  /\ r.snap = r.cache1 /\ contextCache = r.snap
  /\ Get(r.snap).repositoryId = RepoId
  /\ Get(r.snap).labels = RemoteLabels
  /\ DOMAIN Get(r.snap).milestones = OpenMilestones
Persisted(r) ==
  /\ disk.kind = "json" /\ disk.repoKey = RepoKey
  /\ disk.data = Some(ToJson(Get(r.snap)))

C25_RefreshBypassesCaches ==
  \A t \in Tasks :
    LET r == res[t] IN
    IsRefresh(r) =>
      /\ r.reads = 0
      /\ r.ok => FetchedNow(r) /\ Persisted(r)

(* C25 as amended: as above, the persisted record equal to the fetched    *)
(* result when the write of the cache file succeeded; when it failed the  *)
(* call returns the fetched snapshot all the same and the file is not a   *)
(* record of it.                                                          *)
C25_RefreshBypassesCachesWriteOk ==
  \A t \in Tasks :
    LET r == res[t] IN
    IsRefresh(r) =>
      /\ r.reads = 0
      /\ r.ok => /\ FetchedNow(r)
                 /\ r.writes = 1
                 /\ ~r.saveFail => Persisted(r)
                 /\ r.saveFail => ~Persisted(r) \/ r.disk0 = "match"

C25_Witness ==
  \E t \in Tasks :
    /\ IsRefresh(res[t]) /\ res[t].ok /\ ~res[t].saveFail
    /\ IsSome(res[t].cache0) /\ res[t].cache0 # res[t].snap
    /\ res[t].disk0 = "match"

(* C26: deleteIssue with dependents deletes in order. Its delete requests *)
(* go out one at a time, each only after the one before has removed its   *)
(* issue, for the dependents in search order and then for the parent; the *)
(* parent's delete is issued only when no dependent found by the search   *)
(* is left; on success the count returned is the number of dependents     *)
(* deleted plus one.                                                      *)
DeleteIds(cs) ==
  LET dels == SelectSeq(cs, LAMBDA c : c.q = "DELETE_ISSUE")
  IN [i \in 1..Len(dels) |-> dels[i].issueId]
DependentsLeft(n) == {i \in issues : SubtaskParent(i) = n}

DeletesInOrder(t) ==
  LET ids == DeleteIds(calls[t])
      n == op[t].n
  IN /\ \A i \in 1..Len(ids) :
          /\ i < Len(ids) =>
               /\ ids[i] # IssueId(n)
               /\ ids[i + 1] # IssueId(n) => ids[i] < ids[i + 1]
               /\ \A x \in issues : IssueId(x) # ids[i]
          /\ ids[i] # IssueId(n) => \E x \in {2, 3} : ids[i] = IssueId(x)
     /\ (ids # <<>> /\ ids[Len(ids)] = IssueId(n)) =>
          /\ DependentsLeft(n) = {}
          /\ loc[t].subtasks = <<>>
          /\ loc[t].deleted = Len(ids) - 1

BoardsOf(pages) == {pages[p][i] : <<p, i>> \in
                      {x \in (1..Len(pages)) \X (1..2) : x[2] <= Len(pages[x[1]])}}
Matching == {b \in BoardsOf(boards.org) \cup BoardsOf(boards.user) :
               ToLower(b.title) = ToLower(ProjectName)}
RequestsOf(pages) == IF pages = <<>> THEN 1 ELSE Len(pages)

C27_FirstMatchOrFailure ==
  IsSome(resolved) =>
    LET r == Get(resolved) IN
    /\ r.reqs <= RequestsOf(boards.org) + RequestsOf(boards.user)
    /\ r.found => /\ Matching # {}
                  /\ \A b \in Matching : r.number <= b.number
                  /\ \E b \in Matching : r.number = b.number
    /\ ~r.found => /\ Matching = {}
                   /\ r.reqs = RequestsOf(boards.org) + RequestsOf(boards.user)

(* C28: persist/load round trip. Once an operation has fetched a snapshot *)
(* and written it to the cache file, a client configured for the same     *)
(* repository that loads the file obtains a snapshot with the same        *)
(* repositoryId, projectId, label map, issue-type map and milestone map   *)
(* (ids and numbers), so each name resolves to the identifier it resolved *)
(* to before.                                                             *)
Saved(r) == r.kind # "" /\ r.writes >= 1 /\ ~r.saveFail
LaterClientLoads == loadCacheFromDisk(disk, Some(Config(NoName, NoName)))

FailedResolution(r) == r.kind = "getContextIds" /\ ~r.ok

C29_FailedResolutionKeepsCaches ==
  \A t \in Tasks :
    LET r == res[t] IN
    /\ FailedResolution(r) =>
         /\ r.cache1 = r.cache0 /\ contextCache = r.cache0
         /\ r.writes = 0
    /\ (FailedResolution(r) /\ r.force /\ IsSome(r.cache0)) =>
         cacheHit(contextCache, FALSE)

C29_Witness ==
  \E t \in Tasks :
    /\ FailedResolution(res[t]) /\ res[t].force /\ IsSome(res[t].cache0)
    /\ Fetches(res[t]) = 1
    /\ contextCache = res[t].cache0

(* C30: createMilestone and updateMilestone report success only when the   *)
(* milestone request and the forced refresh after it have both succeeded. *)
(* When the request succeeded and the refresh failed, the call fails with *)
(* the error the refresh threw and returns no milestone; no step of the   *)
(* refresh changes the remote milestones again, and the snapshot in       *)
(* memory stays what it was when the milestone request was answered.      *)
RefreshErrors ==
  {ConfigMissing, TokenMissing, ApiError, ProjectNotFound}
    \cup {ProjectNumberNotFound(n) : n \in 0..MaxIssue}

(* task t is past the answer of its milestone request *)
Refreshing(t) == IsMilestoneOp(op[t].kind) /\ loc[t].refresh

(* this step answers the milestone request of t with success *)
MutationLands(t) ==
  /\ IsMilestoneOp(op[t].kind) /\ pc[t] = "rest"
  /\ ~(pc'[t] = "idle" /\ res'[t].remoteFailed)

(* this step rejects the call of t during its refresh *)
RefreshFails(t) ==
  /\ MutationLands(t) \/ Refreshing(t)
  /\ pc'[t] = "idle" /\ ~res'[t].ok

MilestoneSettled ==
  \A t \in Tasks :
    LET r == res[t] IN
    (IsMilestoneOp(r.kind) /\ r.ok) =>
      /\ After(r.qs, MilestoneRequests, {"GET_CONTEXT_IDS"})
      /\ r.qs[Len(r.qs)] = "GET_CONTEXT_IDS"
      /\ r.num # 0 /\ r.err = NoErr

RefreshStep ==
  \A t \in Tasks :
    /\ MutationLands(t) =>
         /\ TitleOfNumber(loc[t].msNumber) \in DOMAIN milestones'
         /\ op[t].state = "closed" => ~milestones'[TitleOfNumber(loc[t].msNumber)]
         /\ contextCache' = contextCache
    /\ Refreshing(t) =>
         /\ milestones' = milestones
         /\ contextCache' # contextCache => pc'[t] = "idle" /\ res'[t].ok
    /\ RefreshFails(t) =>
         /\ res'[t].err \in RefreshErrors
         /\ res'[t].num = 0 /\ res'[t].snap = None
         /\ contextCache' = contextCache
         /\ disk' = disk

C30_MilestoneNeedsRefresh ==
  /\ []MilestoneSettled
  /\ [][RefreshStep]_vars

C30_Witness ==
  \E t \in Tasks :
    /\ res[t].kind = "createMilestone" /\ ~res[t].ok
    /\ res[t].err = ApiError
    /\ res[t].qs = <<"POST_MILESTONE", "GET_CONTEXT_IDS">>
    /\ "v2.0" \in DOMAIN milestones
    /\ IsSome(contextCache) /\ contextCache = res[t].cache0
    /\ "v2.0" \notin DOMAIN Get(contextCache).milestones

====
